---- MODULE Spec2Model ----
(***************************************************************************)
(* Model of eartrainerloop.py: the timed sequencing engine (ProgramStep,   *)
(* Program, ProgramRunner), the pitch arithmetic of Note, Interval and     *)
(* Chord, and the generation of the catalogue by ConfigFile.               *)
(*                                                                         *)
(* Specifications.  Spec and LiveSpec are the Runner Loop over a catalogue *)
(* of one program of each family (ProgramSteps); ApiSpec calls the Program *)
(* API in any order; NoteSpec applies add_semitones and Chord to every     *)
(* root; MainSpec is __main__ from a configuration to the first draw, with *)
(* the catalogue that read_programs() builds from it.                      *)
(*                                                                         *)
(* Strings.  Names are built as the f-strings build them.  str.split is    *)
(* modelled on the chord names of the model only (str_split).              *)
(*                                                                         *)
(* Time.  time.time() returns seconds as a float; the model counts the     *)
(* clock in ticks of 1/TicksPerMs millisecond, so that the truncation      *)
(* int((now - start) * 1000) of elapsed_ms is a real computation.  Every   *)
(* call of time.time() reads the clock after some gap of 0..MaxDelta ticks *)
(* since the previous reading (the clock does not run backwards); the gaps *)
(* of one operation are its input (gaps), consumed one per reading.  The   *)
(* code only ever subtracts two readings (line 72) or tests a stored one   *)
(* for None (line 69), so when no step holds a start_time the epoch of the *)
(* clock is moved to the present (Rebase): no stored reading exists that   *)
(* the shift could be compared to.                                         *)
(*                                                                         *)
(* Sound.play() is taken to succeed: the sample files exist.               *)
(***************************************************************************)
EXTENDS Integers, Sequences, FiniteSets, TLC

\* Python's None, kept apart from every clock reading (>= Epoch), every index
\* (>= -1) and every elapsed time (>= 0) the model can hold
None == -1000
NoError == "none"

\* ---- bounds of the model ------------------------------------------------
TicksPerMs == 2        \* clock resolution: ticks per millisecond
MaxDelta == 1          \* most ticks that pass between two clock readings
MaxDuration == 1       \* largest configured duration (ms)
Epoch == 1             \* clock reading at the (moving) epoch; time.time() > 0
MinOctave == 2         \* octaves of the notes given to add_semitones
MaxOctave == 4

\* configured durations: one negative value, 0, and the positive ones
Durations == (-1)..MaxDuration

\* ---- the catalogue ------------------------------------------------------
\* Step lists built by ConfigFile.read_note_programs / read_interval_programs
\* / read_chord_programs: one program of each family.
ProgramSteps ==
  << <<"PlayNote", "PlayIdentity">>,
     <<"PlayNote", "PlayNote", "PlayIdentity">>,
     <<"PlayChord", "PlayIdentity">> >>

\* programs are indexed as in self.programs[idx], steps as in self.steps[i]
Programs == 0..(Len(ProgramSteps) - 1)
len_steps(p) == Len(ProgramSteps[p + 1])
StepsOf(p) == 0..(len_steps(p) - 1)
step_kind(p, i) == ProgramSteps[p + 1][i + 1]

VARIABLES
  settings,            \* config['settings']: note_duration, identity_duration
  programs_running,    \* Program.is_running, per program
  current_step_idx,    \* Program.current_step_idx
  current_step,        \* Program.current_step: None or the index of the step object
  is_running,          \* ProgramStep.is_running, per program and step
  start_time,          \* ProgramStep.start_time: None or a clock reading
  current_program,     \* ProgramRunner.current_program: None or a program index
  now,                 \* the clock at its latest reading
  exc,                 \* exception raised by the latest call (NoError if none)
  calls,               \* the calls made during the latest operation, in order
  played,              \* per program: steps whose sound was played since its last start()
  ever_started,        \* per program and step: start() has been called on it at least once
  arg_note,            \* the Note on which add_semitones is called
  arg_semitones,       \* its argument
  new_note,            \* << >>, or <<n>> for the Note n it returned
  arg_chord_type,      \* the chord quality token from which a Chord is built
  chord,               \* << >>, or <<c>> for the outcome c of Chord(...)
  config,              \* ConfigFile.config: the programs table and settings.octave_range
  programs,            \* ProgramRunner.programs as ConfigFile.read_programs built it
  main_pc,             \* where __main__ stands: "start", "run", "loop" or "exit"
  main_exc,            \* the exception that ended the process (NoError if none)
  drawn                \* the index drawn by the first get_random_program(), or None

engine_vars == << settings, programs_running, current_step_idx, current_step, is_running,
                  start_time, current_program, now, exc, calls, played, ever_started >>
note_vars == << arg_note, arg_semitones, new_note >>
chord_vars == << arg_chord_type, chord >>
main_vars == << config, programs, main_pc, main_exc, drawn >>
vars == << engine_vars, note_vars, chord_vars, main_vars >>

\* ---- Note ----------------------------------------------------------------
\* Note.NOTES
NOTES == <<"C", "C#", "D", "D#", "E", "F", "F#", "G", "G#", "A", "A#", "B">>

\* largest value of Interval.SEMITONE_MAP ('octave')
MaxSemitones == 12

\* Note.__init__
Note(note_name, octave) == [note_name |-> note_name, octave |-> octave]

\* what the model returns where the code raises IndexError
IndexErrorNote == Note("IndexError", 0)

\* self.NOTES.index(note_name), 0-based
NOTES_index(note_name) == CHOOSE k \in 0..(Len(NOTES) - 1) : NOTES[k + 1] = note_name

\* Note.add_semitones wrapping only past index 12
add_semitones_gt(note, semitones) ==
  LET idx == NOTES_index(note.note_name)
      sum == idx + semitones
      new_note_idx == IF sum > Len(NOTES) THEN sum - Len(NOTES) ELSE sum
      new_note_octave == IF sum > Len(NOTES) THEN note.octave + 1 ELSE note.octave
  IN  IF new_note_idx >= Len(NOTES) \/ new_note_idx < -Len(NOTES) THEN IndexErrorNote
      ELSE IF new_note_idx < 0
           THEN Note(NOTES[Len(NOTES) + new_note_idx + 1], new_note_octave)
           ELSE Note(NOTES[new_note_idx + 1], new_note_octave)

\* Note.add_semitones; self.NOTES[k] accepts -len <= k < len (a negative k
\* counts from the end) and raises IndexError otherwise
add_semitones(note, semitones) ==
  LET idx == NOTES_index(note.note_name)
      sum == idx + semitones
      new_note_idx == IF sum >= Len(NOTES) THEN sum - Len(NOTES) ELSE sum
      new_note_octave == IF sum >= Len(NOTES) THEN note.octave + 1 ELSE note.octave
  IN  IF new_note_idx >= Len(NOTES) \/ new_note_idx < -Len(NOTES) THEN IndexErrorNote
      ELSE IF new_note_idx < 0
           THEN Note(NOTES[Len(NOTES) + new_note_idx + 1], new_note_octave)
           ELSE Note(NOTES[new_note_idx + 1], new_note_octave)

\* Note.name
Note_name(note) == note.note_name \o ToString(note.octave)

\* ---- Interval ------------------------------------------------------------
\* Interval.SEMITONE_MAP
SEMITONE_MAP ==
  ("unison" :> 0) @@ ("min 2nd" :> 1) @@ ("maj 2nd" :> 2) @@ ("min 3rd" :> 3) @@
  ("maj 3rd" :> 4) @@ ("4th" :> 5) @@ ("dim 5th" :> 6) @@ ("5th" :> 7) @@
  ("min 6th" :> 8) @@ ("maj 6th" :> 9) @@ ("min 7th" :> 10) @@ ("maj 7th" :> 11) @@
  ("octave" :> 12)

\* Interval.semitones of an Interval named name; the lookup raises KeyError
\* for a name that is no key of SEMITONE_MAP
Interval_semitones_raises(name) == name \notin DOMAIN SEMITONE_MAP
Interval_semitones(name) == SEMITONE_MAP[name]

\* Note.add_interval
add_interval(note, interval_name) == add_semitones(note, Interval_semitones(interval_name))

\* Interval.__init__: the outcome of Interval(interval, root_note)
Interval(interval, root_note) ==
  IF Interval_semitones_raises(interval)
  THEN [exc |-> "KeyError", name |-> interval, first_note |-> root_note,
        second_note |-> root_note]
  ELSE [exc |-> NoError, name |-> interval, first_note |-> root_note,
        second_note |-> add_interval(root_note, interval)]

\* ---- Chord ---------------------------------------------------------------
\* Chord.INTERVAL_MAP with the minor chord built on a major third
INTERVAL_MAP_maj3 ==
  ("maj" :> <<"maj 3rd", "5th">>) @@ ("min" :> <<"maj 3rd", "5th">>) @@
  ("dim" :> <<"min 3rd", "dim 5th">>)

\* Chord.INTERVAL_MAP
INTERVAL_MAP ==
  ("maj" :> <<"maj 3rd", "5th">>) @@ ("min" :> <<"min 3rd", "5th">>) @@
  ("dim" :> <<"min 3rd", "dim 5th">>)

\* the chord quality tokens a configuration of the model may hold: the three
\* of INTERVAL_MAP, one that is no key of it, and one with a space in it
ChordTypes == {"maj", "min", "dim", "sus", "maj 7"}

\* the words without a space of which the chord names of the model are made
ChordWords == {"maj", "min", "dim", "sus", "7"}

\* ' '.join(words)
str_join(words) ==
  IF Len(words) = 2 THEN words[1] \o " " \o words[2]
  ELSE words[1] \o " " \o words[2] \o " " \o words[3]

\* f'{note_name} {chord_type}'
ChordName(note_name, chord_type) == note_name \o " " \o chord_type

\* chord_name.split(' '), for the chord names of the model: the words between
\* the spaces
str_split ==
  [s \in {ChordName(NOTES[k], t) : k \in 1..Len(NOTES), t \in ChordTypes} |->
     CHOOSE ws \in {<<NOTES[k], a>> : k \in 1..Len(NOTES), a \in ChordWords} \cup
                   {<<NOTES[k], a, b>> : k \in 1..Len(NOTES), a \in ChordWords, b \in ChordWords} :
       str_join(ws) = s]

\* what Chord(...) is in the model where the code raises e
ChordRaises(chord_name, octave, e) ==
  [exc |-> e, chord_name |-> chord_name, octave |-> octave, notes |-> << >>]

\* Chord.__init__: the outcome of Chord(chord_name, octave). Unpacking the
\* split into two names raises ValueError unless it has two words; a quality
\* that is no key of INTERVAL_MAP raises KeyError
Chord(chord_name, octave) ==
  LET words == str_split[chord_name]
  IN  IF Len(words) # 2 THEN ChordRaises(chord_name, octave, "ValueError")
      ELSE LET root_note == Note(words[1], octave)
               chord_type == words[2]
           IN  IF chord_type \notin DOMAIN INTERVAL_MAP
               THEN ChordRaises(chord_name, octave, "KeyError")
               ELSE LET intervals == INTERVAL_MAP[chord_type]
                    IN  IF \E k \in 1..Len(intervals) : Interval(intervals[k], root_note).exc # NoError
                        THEN ChordRaises(chord_name, octave, "KeyError")
                        ELSE [exc |-> NoError, chord_name |-> chord_name, octave |-> octave,
                              notes |-> <<root_note>> \o
                                [k \in 1..Len(intervals) |->
                                   add_interval(root_note, Interval(intervals[k], root_note).name)]]

\* Chord.name
Chord_name(c) == c.chord_name \o ToString(c.octave)

\* ---- ConfigFile ----------------------------------------------------------
\* the lists appended one after the other, as the loops append to programs
RECURSIVE Flatten(_)
Flatten(seqs) == IF seqs = << >> THEN << >> ELSE Head(seqs) \o Flatten(Tail(seqs))

\* ConfigFile.octave_range with the lower end of the range excluded
octave_range_open(cfg) ==
  [k \in 1..(cfg.octave_range[2] - cfg.octave_range[1]) |-> cfg.octave_range[1] + k]

\* ConfigFile.octave_range: range(start, end + 1), empty when start > end
octave_range(cfg) ==
  [k \in 1..(cfg.octave_range[2] + 1 - cfg.octave_range[1]) |-> cfg.octave_range[1] + k - 1]

\* ProgramStep_PlayNote / _PlayChord / _PlayIdentity.__init__: the step that
\* plays the object named of for duration ms
ProgramStep(kind, of, d) == [kind |-> kind, of |-> of, duration |-> d]

\* Program.__init__
Program(name, steps) == [name |-> name, steps |-> steps]

\* what a read_..._programs call is where it returns programs ps, and where
\* it raises e
Returns(ps) == [exc |-> NoError, programs |-> ps]
Raises(e) == [exc |-> e, programs |-> << >>]

\* the outcomes taken as built whether or not one of them raised
FirstRaised_none(outcomes) == NoError

\* the exception of the first of the outcomes that raised, if any
FirstRaised(outcomes) ==
  IF \A k \in 1..Len(outcomes) : outcomes[k].exc = NoError THEN NoError
  ELSE outcomes[CHOOSE k \in 1..Len(outcomes) :
                  /\ outcomes[k].exc # NoError
                  /\ \A j \in 1..(k - 1) : outcomes[j].exc = NoError].exc

\* ConfigFile.read_note_programs; config['programs']['notes'] raises KeyError
\* when the table has no such key
read_note_programs(cfg, st) ==
  IF "notes" \notin DOMAIN cfg.programs THEN Raises("KeyError")
  ELSE LET note_programs == cfg.programs["notes"]
           octaves == octave_range(cfg)
       IN  Returns(Flatten(
             [a \in 1..Len(note_programs) |->
               [o \in 1..Len(octaves) |->
                 LET note == Note(note_programs[a], octaves[o])
                 IN  Program("Note - " \o Note_name(note),
                       << ProgramStep("PlayNote", Note_name(note), st.note_duration),
                          ProgramStep("PlayIdentity", note.note_name, st.identity_duration) >>)]]))

\* ConfigFile.read_interval_programs
read_interval_programs(cfg, st) ==
  IF "intervals" \notin DOMAIN cfg.programs THEN Raises("KeyError")
  ELSE LET interval_programs == cfg.programs["intervals"]
           octaves == octave_range(cfg)
           built == Flatten(Flatten(
             [a \in 1..Len(interval_programs) |->
               [n \in 1..Len(NOTES) |->
                 [o \in 1..Len(octaves) |->
                   Interval(interval_programs[a], Note(NOTES[n], octaves[o]))]]]))
       IN  IF FirstRaised(built) # NoError THEN Raises(FirstRaised(built))
           ELSE Returns(
             [k \in 1..Len(built) |->
               Program("Interval - " \o built[k].name \o " (" \o Note_name(built[k].first_note) \o ")",
                 << ProgramStep("PlayNote", Note_name(built[k].first_note), st.note_duration),
                    ProgramStep("PlayNote", Note_name(built[k].second_note), st.note_duration),
                    ProgramStep("PlayIdentity", built[k].name, st.identity_duration) >>)])

\* ConfigFile.read_chord_programs
read_chord_programs(cfg, st) ==
  IF "chords" \notin DOMAIN cfg.programs THEN Raises("KeyError")
  ELSE LET chord_programs == cfg.programs["chords"]
           octaves == octave_range(cfg)
           built == Flatten(Flatten(
             [a \in 1..Len(chord_programs) |->
               [n \in 1..Len(NOTES) |->
                 [o \in 1..Len(octaves) |->
                   Chord(ChordName(NOTES[n], chord_programs[a]), octaves[o])]]]))
       IN  IF FirstRaised(built) # NoError THEN Raises(FirstRaised(built))
           ELSE Returns(
             [k \in 1..Len(built) |->
               Program("Chord - " \o Chord_name(built[k]),
                 << ProgramStep("PlayChord", Chord_name(built[k]), st.note_duration),
                    ProgramStep("PlayIdentity", built[k].chord_name, st.identity_duration) >>)])

\* ConfigFile.read_programs returning the chord programs before the interval
\* programs
read_programs_chords_first(cfg, st) ==
  LET n == read_note_programs(cfg, st)
  IN  IF n.exc # NoError THEN n
      ELSE LET i == read_interval_programs(cfg, st)
           IN  IF i.exc # NoError THEN i
               ELSE LET c == read_chord_programs(cfg, st)
                    IN  IF c.exc # NoError THEN c
                        ELSE Returns(n.programs \o c.programs \o i.programs)

\* ConfigFile.read_programs: the three lists are built from left to right and
\* the first exception leaves the call
read_programs(cfg, st) ==
  LET n == read_note_programs(cfg, st)
  IN  IF n.exc # NoError THEN n
      ELSE LET i == read_interval_programs(cfg, st)
           IN  IF i.exc # NoError THEN i
               ELSE LET c == read_chord_programs(cfg, st)
                    IN  IF c.exc # NoError THEN c
                        ELSE Returns(n.programs \o i.programs \o c.programs)

\* the whole state as one value, threaded through the calls of one operation
Heap ==
  [ settings |-> settings, programs_running |-> programs_running,
    current_step_idx |-> current_step_idx, current_step |-> current_step,
    is_running |-> is_running, start_time |-> start_time,
    current_program |-> current_program, now |-> now, exc |-> exc,
    calls |-> calls, played |-> played, ever_started |-> ever_started,
    gaps |-> << >>, starved |-> FALSE ]

\* "LET x == v IN Body(x)" with v evaluated exactly once
With(v, Body(_)) == CHOOSE r \in {Body(x) : x \in {v}} : TRUE

\* a call of op on program p (and its step i, else -1); v is the elapsed_ms
\* a poll obtained (None otherwise)
Event(op, p, i, v) == [op |-> op, p |-> p, i |-> i, v |-> v]
LogV(h, op, p, i, v) == [h EXCEPT !.calls = Append(@, Event(op, p, i, v))]
Log(h, op, p, i) == LogV(h, op, p, i, None)
Raise(h, e) == [h EXCEPT !.exc = e]

\* duration passed to the step's constructor: note_duration for PlayNote and
\* PlayChord, identity_duration for PlayIdentity
duration(h, p, i) ==
  IF step_kind(p, i) = "PlayIdentity" THEN h.settings.identity_duration
  ELSE h.settings.note_duration

\* time.time(): the clock is read Head(gaps) ticks after its previous reading;
\* starved records that the operation reads the clock more often than gaps
\* were supplied for
time_time(h) ==
  IF h.gaps = << >> THEN [h EXCEPT !.starved = TRUE]
  ELSE [h EXCEPT !.now = @ + Head(h.gaps), !.gaps = Tail(@)]

\* Python truthiness of a start_time: None and 0.0 are both falsy
Falsy(st) == st = None \/ st = 0

\* int(x) for x = a / b, b > 0: truncation toward zero
int_div(a, b) == IF a >= 0 THEN a \div b ELSE -((-a) \div b)

\* ProgramStep.elapsed_ms, given the clock reading t taken at line 72
elapsed_ms(st, t) == IF Falsy(st) THEN None ELSE int_div(t - st, TicksPerMs)

\* Sound.play(): fire-and-forget playback of the step's sound
Sound_play(h, p, i) ==
  [Log(h, "Sound.play", p, i) EXCEPT !.played[p] = Append(@, i)]

\* ProgramStep.start
ProgramStep_start(h, p, i) ==
  With(time_time(Log(h, "ProgramStep.start", p, i)), LAMBDA h1 :
    [h1 EXCEPT !.is_running[p][i] = TRUE,
               !.start_time[p][i] = h1.now,
               !.ever_started[p][i] = TRUE])

\* a start() that plays the sound twice
ProgramStep_Play_start_twice(h, p, i) ==
  Sound_play(Sound_play(ProgramStep_start(h, p, i), p, i), p, i)

\* ProgramStep_PlayNote.start / _PlayChord.start / _PlayIdentity.start
ProgramStep_Play_start(h, p, i) == Sound_play(ProgramStep_start(h, p, i), p, i)

\* ProgramStep.stop
ProgramStep_stop(h, p, i) ==
  [Log(h, "ProgramStep.stop", p, i) EXCEPT !.is_running[p][i] = FALSE,
                                           !.start_time[p][i] = None]

\* ProgramStep.is_complete
ProgramStep_is_complete(h, p, i) == ~h.is_running[p][i]

\* ProgramStep.step completing one millisecond late
ProgramStep_step_late(h, p, i) ==
  IF Falsy(h.start_time[p][i])
  THEN Raise(LogV(h, "ProgramStep.step", p, i, elapsed_ms(h.start_time[p][i], h.now)),
             "TypeError")
  ELSE With(time_time(h), LAMBDA t :
         With(elapsed_ms(t.start_time[p][i], t.now), LAMBDA e :
           With(LogV(t, "ProgramStep.step", p, i, e), LAMBDA h1 :
             IF e > duration(h1, p, i) + 1 THEN ProgramStep_stop(h1, p, i) ELSE h1)))

\* ProgramStep.step completing as soon as the duration is reached
ProgramStep_step_early(h, p, i) ==
  IF Falsy(h.start_time[p][i])
  THEN Raise(LogV(h, "ProgramStep.step", p, i, elapsed_ms(h.start_time[p][i], h.now)),
             "TypeError")
  ELSE With(time_time(h), LAMBDA t :
         With(elapsed_ms(t.start_time[p][i], t.now), LAMBDA e :
           With(LogV(t, "ProgramStep.step", p, i, e), LAMBDA h1 :
             IF e >= duration(h1, p, i) THEN ProgramStep_stop(h1, p, i) ELSE h1)))

\* ProgramStep.step: elapsed_ms returns None without reading the clock when
\* start_time is falsy, and None > int raises TypeError
ProgramStep_step(h, p, i) ==
  IF Falsy(h.start_time[p][i])
  THEN Raise(LogV(h, "ProgramStep.step", p, i, elapsed_ms(h.start_time[p][i], h.now)),
             "TypeError")
  ELSE With(time_time(h), LAMBDA t :
         With(elapsed_ms(t.start_time[p][i], t.now), LAMBDA e :
           With(LogV(t, "ProgramStep.step", p, i, e), LAMBDA h1 :
             IF e > duration(h1, p, i) THEN ProgramStep_stop(h1, p, i) ELSE h1)))

\* Program.start leaving the cursor where it is
Program_start_keep_cursor(h, p) ==
  With([Log(h, "Program.start", p, -1) EXCEPT !.played[p] = << >>], LAMBDA h1 :
    IF len_steps(p) = 0 THEN Raise(h1, "IndexError")
    ELSE With(ProgramStep_Play_start([h1 EXCEPT !.current_step[p] = 0], p, 0), LAMBDA h2 :
           [h2 EXCEPT !.programs_running[p] = TRUE]))

\* Program.start
Program_start(h, p) ==
  With([Log(h, "Program.start", p, -1)
          EXCEPT !.current_step_idx[p] = 0, !.played[p] = << >>], LAMBDA h1 :
    IF len_steps(p) = 0 THEN Raise(h1, "IndexError")
    ELSE With(ProgramStep_Play_start([h1 EXCEPT !.current_step[p] = 0], p, 0), LAMBDA h2 :
           [h2 EXCEPT !.programs_running[p] = TRUE]))

\* Program.stop leaving is_running as it is
Program_stop_running(h, p) ==
  [Log(h, "Program.stop", p, -1) EXCEPT !.current_step_idx[p] = 0,
                                        !.current_step[p] = None]

\* Program.stop
Program_stop(h, p) ==
  [Log(h, "Program.stop", p, -1) EXCEPT !.programs_running[p] = FALSE,
                                        !.current_step_idx[p] = 0,
                                        !.current_step[p] = None]

\* an is_complete that never reports completion
Program_is_complete_never(h, p) == FALSE

\* Program.is_complete
Program_is_complete(h, p) == ~h.programs_running[p]

\* Program.step taking the step before the new cursor as the next step
Program_step_again(h, p) ==
  With(Log(h, "Program.step", p, -1), LAMBDA h0 :
    IF h0.current_step[p] = None THEN Raise(h0, "AttributeError")
    ELSE
      With(ProgramStep_step(h0, p, h0.current_step[p]), LAMBDA h1 :
        IF h1.exc # NoError THEN h1
        ELSE IF ProgramStep_is_complete(h1, p, h1.current_step[p])
        THEN With([h1 EXCEPT !.current_step_idx[p] = @ + 1], LAMBDA h2 :
               IF h2.current_step_idx[p] >= len_steps(p)
               THEN Program_stop(h2, p)
               ELSE ProgramStep_Play_start(
                      [h2 EXCEPT !.current_step[p] = h2.current_step_idx[p] - 1],
                      p, h2.current_step_idx[p] - 1))
        ELSE h1))

\* Program.step with the start of the next step left to the following poll
Program_step_deferred(h, p) ==
  With(Log(h, "Program.step", p, -1), LAMBDA h0 :
    IF h0.current_step[p] = None THEN Raise(h0, "AttributeError")
    ELSE
      With(ProgramStep_step(h0, p, h0.current_step[p]), LAMBDA h1 :
        IF h1.exc # NoError THEN h1
        ELSE IF ProgramStep_is_complete(h1, p, h1.current_step[p])
        THEN With([h1 EXCEPT !.current_step_idx[p] = @ + 1], LAMBDA h2 :
               IF h2.current_step_idx[p] >= len_steps(p)
               THEN Program_stop(h2, p)
               ELSE [h2 EXCEPT !.current_step[p] = h2.current_step_idx[p]])
        ELSE h1))

\* Program.step
Program_step(h, p) ==
  With(Log(h, "Program.step", p, -1), LAMBDA h0 :
    IF h0.current_step[p] = None THEN Raise(h0, "AttributeError")
    ELSE
      With(ProgramStep_step(h0, p, h0.current_step[p]), LAMBDA h1 :
        IF h1.exc # NoError THEN h1
        ELSE IF ProgramStep_is_complete(h1, p, h1.current_step[p])
        THEN With([h1 EXCEPT !.current_step_idx[p] = @ + 1], LAMBDA h2 :
               IF h2.current_step_idx[p] >= len_steps(p)
               THEN Program_stop(h2, p)
               ELSE ProgramStep_Play_start(
                      [h2 EXCEPT !.current_step[p] = h2.current_step_idx[p]],
                      p, h2.current_step_idx[p]))
        ELSE h1))

\* random.randint(a, b) returning a for an empty range
randint_lenient(a, b) == IF a > b THEN {a} ELSE a..b

\* random.randint(a, b): the values it may return; it raises ValueError when
\* the range is empty
randint(a, b) == a..b

\* ProgramRunner.get_random_program: random.randint(0, len(self.programs)-1)
\* without its last value
RandomIdx_short == randint(0, Len(ProgramSteps) - 2)

\* ProgramRunner.get_random_program: random.randint(0, len(self.programs)-1)
RandomIdx == randint(0, Len(ProgramSteps) - 1)
get_random_program(h, idx) == Log(h, "get_random_program", idx, -1)

\* an iteration that clears the reference whatever the Program's state
run_iteration_clear(h, idx) ==
  With(IF h.current_program = None
       THEN Program_start([get_random_program(h, idx)
                             EXCEPT !.current_program = idx], idx)
       ELSE h, LAMBDA h1 :
    With(IF h1.exc # NoError THEN h1
         ELSE Program_step(h1, h1.current_program), LAMBDA h2 :
      IF h2.exc # NoError THEN h2
      ELSE [h2 EXCEPT !.current_program = None]))

\* one iteration of the loop of ProgramRunner.run
run_iteration(h, idx) ==
  With(IF h.current_program = None
       THEN Program_start([get_random_program(h, idx)
                             EXCEPT !.current_program = idx], idx)
       ELSE h, LAMBDA h1 :
    With(IF h1.exc # NoError THEN h1
         ELSE Program_step(h1, h1.current_program), LAMBDA h2 :
      IF h2.exc # NoError THEN h2
      ELSE IF Program_is_complete(h2, h2.current_program)
      THEN [h2 EXCEPT !.current_program = None]
      ELSE h2))

\* the epoch of the clock moves to the present when no start_time is stored
Rebase(h) ==
  With(h, LAMBDA x :
    IF \A p \in Programs : \A i \in StepsOf(p) : x.start_time[p][i] = None
    THEN [x EXCEPT !.now = Epoch]
    ELSE x)

\* the state after an operation that ended with heap h
Commit(h) ==
  \E r \in {Rebase(h)} :
      /\ settings' = r.settings
      /\ programs_running' = r.programs_running
      /\ current_step_idx' = r.current_step_idx
      /\ current_step' = r.current_step
      /\ is_running' = r.is_running
      /\ start_time' = r.start_time
      /\ current_program' = r.current_program
      /\ now' = r.now
      /\ exc' = r.exc
      /\ calls' = r.calls
      /\ played' = r.played
      /\ ever_started' = r.ever_started
      /\ UNCHANGED << note_vars, chord_vars, main_vars >>

\* an operation starts with no pending exception and an empty call log; gs
\* are the gaps between the clock readings it will make
Fresh(gs) == [Heap EXCEPT !.exc = NoError, !.calls = << >>, !.gaps = gs]

Deltas == 0..MaxDelta

\* the operation Op under every choice of the gaps between its clock readings
\* (an operation of this program reads the clock at most three times)
Do(Op(_)) ==
  \E a \in {Op(Fresh(<< >>))} :
    IF ~a.starved THEN Commit(a)
    ELSE \E g1 \in Deltas : \E b \in {Op(Fresh(<<g1>>))} :
      IF ~b.starved THEN Commit(b)
      ELSE \E g2 \in Deltas : \E c \in {Op(Fresh(<<g1, g2>>))} :
        IF ~c.starved THEN Commit(c)
        ELSE \E g3 \in Deltas : Commit(Op(Fresh(<<g1, g2, g3>>)))

\* ---- construction: ProgramStep.__init__, Program.__init__, ProgramRunner.__init__
EngineInit ==
  /\ settings \in [note_duration : Durations, identity_duration : Durations]
  /\ programs_running = [p \in Programs |-> FALSE]
  /\ current_step_idx = [p \in Programs |-> -1]
  /\ current_step = [p \in Programs |-> None]
  /\ is_running = [p \in Programs |-> [i \in StepsOf(p) |-> FALSE]]
  /\ start_time = [p \in Programs |-> [i \in StepsOf(p) |-> None]]
  /\ current_program = None
  /\ now = Epoch
  /\ exc = NoError
  /\ calls = << >>
  /\ played = [p \in Programs |-> << >>]
  /\ ever_started = [p \in Programs |-> [i \in StepsOf(p) |-> FALSE]]

\* the configuration behind the catalogue ProgramSteps is not looked at again
\* once the runner is constructed
MainIdle ==
  /\ config = [programs |-> << >>, octave_range |-> <<MinOctave, MinOctave>>]
  /\ programs = << >>
  /\ main_pc = "loop"
  /\ main_exc = NoError
  /\ drawn = None

Init ==
  /\ EngineInit
  /\ arg_note = Note("C", MinOctave)
  /\ arg_semitones = 0
  /\ new_note = << >>
  /\ arg_chord_type = "maj"
  /\ chord = << >>
  /\ MainIdle

\* ---- the Runner Loop: ProgramRunner.run -----------------------------------
\* the loop ends only by an exception leaving run()
run ==
  /\ exc = NoError
  /\ IF current_program = None
     THEN \E idx \in RandomIdx : Do(LAMBDA h : run_iteration(h, idx))
     ELSE Do(LAMBDA h : run_iteration(h, None))

Next == run

\* ---- a driver of the Program API, in the manner of a unit test ------------
\* It calls Program.start, Program.step and ProgramStep.step in any order and
\* catches what they raise; like ProgramRunner.run it starts a Program only
\* while no Program is running.
ApiProgramStart(p) ==
  /\ \A q \in Programs : ~programs_running[q]
  /\ Do(LAMBDA h : Program_start(h, p))

ApiProgramStep(p) ==
  /\ p \in Programs
  /\ Do(LAMBDA h : Program_step(h, p))

ApiStepPoll(p, i) ==
  /\ i \in StepsOf(p)
  /\ Do(LAMBDA h : ProgramStep_step(h, p, i))

ApiNext ==
  \/ \E p \in Programs : ApiProgramStart(p)
  \/ \E p \in Programs : ApiProgramStep(p)
  \/ \E p \in Programs : \E i \in StepsOf(p) : ApiStepPoll(p, i)

ApiSpec == Init /\ [][ApiNext]_vars

\* ---- Note.add_semitones applied to every note and offset of the interval table
NoteInit ==
  /\ EngineInit
  /\ arg_note \in {Note(NOTES[k], o) : k \in 1..Len(NOTES), o \in MinOctave..MaxOctave}
  /\ arg_semitones \in 0..MaxSemitones
  /\ new_note = << >>
  /\ arg_chord_type \in ChordTypes
  /\ chord = << >>
  /\ MainIdle

AddSemitones ==
  /\ new_note = << >>
  /\ new_note' = << add_semitones(arg_note, arg_semitones) >>
  /\ UNCHANGED << engine_vars, arg_note, arg_semitones, chord_vars, main_vars >>

\* Chord(f'{note_name} {chord_type}', octave) on the root and octave of arg_note
BuildChord ==
  /\ chord = << >>
  /\ chord' = << Chord(ChordName(arg_note.note_name, arg_chord_type), arg_note.octave) >>
  /\ UNCHANGED << engine_vars, note_vars, arg_chord_type, main_vars >>

NoteNext == AddSemitones \/ BuildChord

NoteSpec == NoteInit /\ [][NoteNext]_vars

\* ---- __main__: the catalogue is generated, printed, and the loop entered ---
\* the lists a programs table of the model may hold under each of its keys
NoteLists == {<< >>, <<"C">>, <<"A#", "C">>}
IntervalLists == {<< >>, <<"maj 3rd">>, <<"octave", "min 2nd">>, <<"5th", "tritone">>, <<"tritone">>}
ChordLists == {<< >>, <<"maj">>, <<"min", "dim">>, <<"maj", "sus">>, <<"maj 7">>}

\* config['programs']: any of the three keys may be missing from the table
ProgramTables ==
  UNION { [keys -> NoteLists \cup IntervalLists \cup ChordLists] :
            keys \in SUBSET {"notes", "intervals", "chords"} }

Configs ==
  { [programs |-> t, octave_range |-> <<s, e>>] :
      t \in { u \in ProgramTables :
                /\ "notes" \in DOMAIN u => u["notes"] \in NoteLists
                /\ "intervals" \in DOMAIN u => u["intervals"] \in IntervalLists
                /\ "chords" \in DOMAIN u => u["chords"] \in ChordLists },
      s \in MinOctave..MaxOctave, e \in MinOctave..MaxOctave }

MainInit ==
  /\ EngineInit
  /\ arg_note = Note("C", MinOctave)
  /\ arg_semitones = 0
  /\ new_note = << >>
  /\ arg_chord_type = "maj"
  /\ chord = << >>
  /\ config \in Configs
  /\ programs = << >>
  /\ main_pc = "start"
  /\ main_exc = NoError
  /\ drawn = None

\* runner = ProgramRunner() and the printing of the catalogue and its size;
\* an exception of read_programs() leaves __main__ uncaught
main_ProgramRunner ==
  /\ main_pc = "start"
  /\ \E r \in {read_programs(config, settings)} :
       IF r.exc # NoError
       THEN /\ main_exc' = r.exc
            /\ main_pc' = "exit"
            /\ UNCHANGED programs
       ELSE /\ programs' = r.programs
            /\ main_pc' = "run"
            /\ UNCHANGED main_exc
  /\ UNCHANGED << engine_vars, note_vars, chord_vars, config, drawn >>

\* runner.run() up to the first draw of the loop
main_run ==
  /\ main_pc = "run"
  /\ IF randint(0, Len(programs) - 1) = {}
     THEN /\ main_exc' = "ValueError"
          /\ main_pc' = "exit"
          /\ UNCHANGED drawn
     ELSE /\ \E idx \in randint(0, Len(programs) - 1) : drawn' = idx
          /\ main_pc' = "loop"
          /\ UNCHANGED main_exc
  /\ UNCHANGED << engine_vars, note_vars, chord_vars, config, programs >>

MainNext == main_ProgramRunner \/ main_run

MainSpec == MainInit /\ [][MainNext]_vars

Spec == Init /\ [][Next]_vars

\* the loop keeps iterating and the clock keeps advancing
LiveSpec == Init /\ [][Next]_vars /\ WF_vars(run)

\* ---- properties ------------------------------------------------------------
Events(cs) == {cs[k] : k \in 1..Len(cs)}
Called(cs, op, p, i) == \E e \in Events(cs) : e.op = op /\ e.p = p /\ e.i = i
\* the steps 0..n-1 in list order
UpTo(n) == [j \in 1..n |-> j - 1]
\* the playback log that a complete run of program p leaves
Full(p) == UpTo(len_steps(p))

\* C1: in the Runner Loop every Program.step() polls exactly one step, the one
\* at the cursor; if that step is then Complete and not the last, the cursor
\* has advanced by one and the next step is Running, stamped and played when
\* the call returns, the steps played so far being 0,1,..,cursor in list
\* order; if it was the last step the Program is Complete when the call returns.
C1_StepOrder ==
  [][\A k \in 1..Len(calls') : calls'[k].op = "Program.step" =>
       LET p == calls'[k].p
           c == IF current_program = None THEN 0 ELSE current_step[p]
           polls == {j \in 1..Len(calls') : calls'[j].op = "ProgramStep.step"}
       IN  /\ Cardinality(polls) = 1
           /\ \A j \in polls : calls'[j].p = p /\ calls'[j].i = c
           /\ IF is_running'[p][c]
              THEN current_step_idx'[p] = c /\ current_step'[p] = c /\ programs_running'[p]
              ELSE IF c < len_steps(p) - 1
              THEN /\ current_step_idx'[p] = c + 1
                   /\ current_step'[p] = c + 1
                   /\ is_running'[p][c + 1]
                   /\ start_time'[p][c + 1] # None
                   /\ Called(calls', "Sound.play", p, c + 1)
                   /\ played'[p] = UpTo(c + 2)
                   /\ programs_running'[p]
              ELSE /\ ~programs_running'[p]
                   /\ current_step'[p] = None
                   /\ played'[p] = Full(p)
    ]_vars

\* C1 witness: a poll-only iteration completed step 0 of the three-step
\* program and started step 1 in the same call
C1_Witness ==
  /\ calls # << >> /\ calls[1].op = "Program.step" /\ calls[1].p = 1
  /\ Called(calls, "ProgramStep.stop", 1, 0)
  /\ Called(calls, "Sound.play", 1, 1)
  /\ current_program = 1 /\ current_step_idx[1] = 1 /\ is_running[1][1]

\* C2 (as claimed): Program.step() called on a Program that has completed its
\* run raises nothing, plays nothing and changes no cursor, flag or step.
C2_PollAfterComplete ==
  [][\A p \in Programs :
       ( /\ calls' # << >> /\ calls'[1].op = "Program.step" /\ calls'[1].p = p
         /\ ~programs_running[p] /\ current_step[p] = None /\ played[p] = Full(p) )
       => /\ exc' = NoError
          /\ ~\E e \in Events(calls') : e.op \in {"Sound.play", "ProgramStep.start"}
          /\ UNCHANGED << programs_running, current_step_idx, current_step,
                          is_running, start_time, played >>
    ]_vars

\* C3 (as claimed): ProgramStep.step() called on a step that was started and
\* is Complete raises nothing and leaves is_running and start_time as they
\* were; elapsed_ms of a step without start_time is None.
C3_PollCompleteStep ==
  [][\A p \in Programs : \A i \in StepsOf(p) :
       ( /\ calls' # << >> /\ calls'[1] = Event("ProgramStep.step", p, i, calls'[1].v)
         /\ ever_started[p][i] /\ ~is_running[p][i] )
       => /\ exc' = NoError
          /\ is_running' = is_running
          /\ start_time' = start_time
          /\ elapsed_ms(start_time[p][i], now) = None
    ]_vars

\* the polls of the latest operation that found a start_time
Polls(cs) == {e \in Events(cs) : e.op = "ProgramStep.step" /\ e.v # None}

\* C4 (as claimed): a poll of a Running step that finds elapsed_ms >= duration
\* completes the step.
C4_CompletesAtDuration ==
  [][\A e \in Polls(calls') :
       e.v >= duration(Heap, e.p, e.i) => Called(calls', "ProgramStep.stop", e.p, e.i)
    ]_vars

\* C4 (amended): a poll of a Running step completes it exactly when the
\* elapsed whole milliseconds exceed the duration; a step of negative duration
\* is completed by every poll, one of duration 0 only by a poll that finds at
\* least 1 ms elapsed.
C4_CompletesPastDuration ==
  [][\A e \in Polls(calls') :
       LET d == duration(Heap, e.p, e.i)
           stopped == Called(calls', "ProgramStep.stop", e.p, e.i)
       IN  /\ stopped <=> e.v > d
           /\ d < 0 => stopped
           /\ d = 0 => (stopped <=> e.v >= 1)
           /\ stopped => ~is_running'[e.p][e.i]
    ]_vars

\* C4 witness: with note_duration 0 and a negative identity_duration, an
\* identity step was completed by a poll in the millisecond of its start
C4_Witness ==
  /\ settings.note_duration = 0 /\ settings.identity_duration < 0
  /\ \E e \in Polls(calls) :
       /\ e.v = 0 /\ step_kind(e.p, e.i) = "PlayIdentity"
       /\ Called(calls, "ProgramStep.stop", e.p, e.i)

\* C5: a poll completes a Running step (is_running false, start_time None)
\* only if the elapsed milliseconds exceed its duration; a poll that finds
\* them not exceeding it leaves every step's is_running and start_time and
\* every Program's cursor and running flag as they were and plays nothing.
C5_NeverEarly ==
  [][\A e \in Polls(calls') :
       LET d == duration(Heap, e.p, e.i)
       IN  /\ Called(calls', "ProgramStep.stop", e.p, e.i) =>
                e.v > d /\ ~is_running'[e.p][e.i] /\ start_time'[e.p][e.i] = None
           /\ ~(e.v > d) =>
                /\ is_running[e.p][e.i] /\ start_time[e.p][e.i] # None
                /\ UNCHANGED << is_running, start_time, current_step_idx, current_step,
                                programs_running, played >>
                /\ ~\E x \in Events(calls') : x.op \in {"Sound.play", "ProgramStep.start"}
    ]_vars

\* C5 witness: Program.step() polled a step of duration 1 ms at 1 ms elapsed
\* and left it Running
C5_Witness ==
  \E p \in Programs : \E i \in StepsOf(p) :
    /\ calls = << Event("Program.step", p, -1, None), Event("ProgramStep.step", p, i, 1) >>
    /\ duration(Heap, p, i) = 1
    /\ is_running[p][i] /\ programs_running[p] /\ current_step_idx[p] = i

\* C6 (as claimed, its lifecycle clause): over the Runner Loop a step that has
\* been started and is Complete never becomes Running again.
C6_CompleteIsTerminal ==
  [][\A p \in Programs : \A i \in StepsOf(p) :
       (ever_started[p][i] /\ ProgramStep_is_complete(Heap, p, i)) => ~is_running'[p][i]
    ]_vars

\* C6 (amended): the lifecycle is per run of the owning Program.  A step
\* becomes Running only in the iteration that draws its Program or when the
\* cursor moves onto it from the step before it; a Running step is the step at
\* the cursor of a running Program; a step that has never been started is
\* is_complete just like a completed one (is_running false, start_time None).
C6_LifecyclePerRun ==
  [][\A p \in Programs : \A i \in StepsOf(p) :
       /\ (~is_running[p][i] /\ is_running'[p][i]) =>
            \/ Called(calls', "get_random_program", p, -1)
            \/ current_step_idx[p] = i - 1 /\ current_step_idx'[p] = i
       /\ is_running'[p][i] =>
            programs_running'[p] /\ current_step'[p] = i /\ current_step_idx'[p] = i
       /\ ~ever_started'[p][i] =>
            ~is_running'[p][i] /\ start_time'[p][i] = None
    ]_vars

\* C6 witness: step 0 of a Program is Running again after an earlier run of
\* that Program reached its last step, while another Program's step has never
\* been started and is is_complete
C6_Witness ==
  \E p, q \in Programs :
    /\ is_running[p][0] /\ ever_started[p][len_steps(p) - 1]
    /\ ~ever_started[q][0] /\ ProgramStep_is_complete(Heap, q, 0)

\* C7: a Program is drawn and started only in an iteration that found no
\* current Program; the reference changes only to or from None; it is None
\* after an iteration only if the Program that iteration polled is Complete,
\* all its steps played in order and none Running; every Program other than
\* the current one has been played either not at all or in full.
C7_PlayToCompletion ==
  [][/\ \A e \in Events(calls') :
          e.op \in {"get_random_program", "Program.start"} =>
            current_program = None /\ Called(calls', "get_random_program", e.p, -1)
     /\ (current_program # None /\ current_program' # current_program) =>
          current_program' = None
     /\ current_program' = None =>
          \E e \in Events(calls') :
            /\ e.op = "Program.step"
            /\ current_program \in {None, e.p}
            /\ ~programs_running'[e.p]
            /\ played'[e.p] = Full(e.p)
            /\ \A i \in StepsOf(e.p) : ~is_running'[e.p][i] /\ ever_started'[e.p][i]
     /\ \A p \in Programs :
          p # current_program' => played'[p] \in {<< >>, Full(p)}
    ]_vars

\* C7 witness: the iteration that polled the two-step note Program found it
\* Complete and cleared the reference
C7_Witness ==
  /\ current_program = None
  /\ calls # << >> /\ calls[1] = Event("Program.step", 0, -1, None)
  /\ Called(calls, "Program.stop", 0, -1)
  /\ played[0] = Full(0)

\* C8: in the Runner Loop start() is called on a step only while it is not
\* Running, at most once per iteration and step, each call playing the sound
\* once; a Running step keeps its start_time; the steps played since
\* Program.start() are 0..cursor without repetition while the Program runs and
\* exactly 0..k-1 once it is Complete.
C8_StartedOnce ==
  [][\A p \in Programs :
       /\ \A i \in StepsOf(p) :
            LET starts == {k \in 1..Len(calls') : calls'[k] = Event("ProgramStep.start", p, i, None)}
                plays  == {k \in 1..Len(calls') : calls'[k] = Event("Sound.play", p, i, None)}
            IN  /\ Cardinality(starts) <= 1
                /\ Cardinality(plays) = Cardinality(starts)
                /\ starts # {} => ~is_running[p][i]
                /\ (is_running[p][i] /\ is_running'[p][i]) =>
                     start_time'[p][i] = start_time[p][i]
       /\ programs_running'[p] => played'[p] = UpTo(current_step_idx'[p] + 1)
       /\ ~programs_running'[p] => played'[p] \in {<< >>, Full(p)}
    ]_vars

\* C8 witness: the three-step Program is Complete after exactly three
\* playbacks, of steps 0, 1, 2 in that order
C8_Witness ==
  /\ ~programs_running[1] /\ played[1] = <<0, 1, 2>>
  /\ Called(calls, "Program.stop", 1, -1)

\* the latest iteration stopped a Program that had played all its steps, and
\* cleared the reference
ClearedAfterCompletion ==
  /\ current_program = None
  /\ \E p \in Programs :
       /\ Called(calls, "Program.stop", p, -1)
       /\ ~programs_running[p] /\ played[p] = Full(p)

\* C9: under LiveSpec the loop never ends by an exception, a Program is drawn
\* infinitely often, and whenever a Program is current it eventually is
\* Complete with the reference cleared.
C9_NeverStuck ==
  /\ [](exc = NoError)
  /\ []<>(calls # << >> /\ calls[1].op = "get_random_program")
  /\ (current_program # None) ~> ClearedAfterCompletion

\* C9 witness: a Program has been drawn after another one was played in full
C9_Witness ==
  /\ calls # << >> /\ calls[1].op = "get_random_program"
  /\ current_program # None
  /\ \E q \in Programs : q # current_program /\ played[q] = Full(q)

\* C10: add_semitones(n) on Note(p, o), 0 <= n <= 12, returns the note of
\* pitch class NOTES[(index(p) + n) mod 12] in octave o + (index(p) + n) div 12.
C10_AddSemitones ==
  new_note # << >> =>
    LET sum == NOTES_index(arg_note.note_name) + arg_semitones
    IN  new_note[1] = Note(NOTES[(sum % 12) + 1], arg_note.octave + (sum \div 12))

\* C10 witness: B3 + 1 semitone = C4
C10_Witness ==
  /\ arg_note = Note("B", 3) /\ arg_semitones = 1
  /\ new_note = << Note("C", 4) >>

\* the absolute pitch of a note, 12 * octave + its index in NOTES, and the
\* note at an absolute pitch
Pitch(note) == 12 * note.octave + NOTES_index(note.note_name)
NoteAt(pitch) == Note(NOTES[(pitch % 12) + 1], pitch \div 12)

\* the semitones above the root of the three notes of a chord, per quality
ChordOffsets == ("maj" :> <<0, 4, 7>>) @@ ("min" :> <<0, 3, 7>>) @@ ("dim" :> <<0, 3, 6>>)

\* C11: for every quality maj, min, dim, every root and every octave, the
\* notes of Chord("root quality", octave) are exactly three, in this order:
\* the root, the root raised by the first interval of the quality and the
\* root raised by its second interval (maj 4 and 7 semitones, min 3 and 7,
\* dim 3 and 6), each with its own octave rollover, and they ascend strictly
\* in absolute pitch.
C11_ChordNotes ==
  (chord # << >> /\ arg_chord_type \in DOMAIN ChordOffsets) =>
    /\ chord[1].exc = NoError
    /\ chord[1].notes =
         [k \in 1..3 |-> NoteAt(Pitch(arg_note) + ChordOffsets[arg_chord_type][k])]
    /\ \A k \in 1..2 : Pitch(chord[1].notes[k]) < Pitch(chord[1].notes[k + 1])

\* "A min" in octave 3 has been built and is A3, C4, E4
C11_Witness ==
  /\ arg_note = Note("A", 3)
  /\ arg_chord_type = "min"
  /\ chord # << >>
  /\ chord[1].notes = <<Note("A", 3), Note("C", 4), Note("E", 4)>>

\* the kinds of the steps of a generated program, and the number of programs
\* of the catalogue whose steps are of these kinds
Kinds(prog) == [k \in 1..Len(prog.steps) |-> prog.steps[k].kind]
CountOf(kinds) == Cardinality({k \in 1..Len(programs) : Kinds(programs[k]) = kinds})

\* the catalogue has been generated
Generated == main_pc \in {"run", "loop"}

\* the configured range of octaves, both ends included
FirstOctave == config.octave_range[1]
LastOctave == config.octave_range[2]
NumOctaves == LastOctave - FirstOctave + 1

\* C12: from a configuration whose octave range start..end is inclusive of
\* both ends (start <= end), the generator builds exactly |notes| * |octaves|
\* note programs, |intervals| * 12 * |octaves| interval programs and
\* |chords| * 12 * |octaves| chord programs, with |octaves| = end - start + 1,
\* and nothing else; an empty list gives no program of its family and leaves
\* the other families as they are.
C12_GeneratorCounts ==
  (Generated /\ FirstOctave <= LastOctave) =>
    /\ CountOf(ProgramSteps[1]) = Len(config.programs["notes"]) * NumOctaves
    /\ CountOf(ProgramSteps[2]) = Len(config.programs["intervals"]) * 12 * NumOctaves
    /\ CountOf(ProgramSteps[3]) = Len(config.programs["chords"]) * 12 * NumOctaves
    /\ Len(programs) = CountOf(ProgramSteps[1]) + CountOf(ProgramSteps[2]) + CountOf(ProgramSteps[3])

\* no note programs, two intervals and one chord quality over two octaves:
\* 0 + 48 + 24 programs
C12_Witness ==
  /\ main_pc = "run"
  /\ config.octave_range = <<MinOctave, MinOctave + 1>>
  /\ DOMAIN config.programs = {"notes", "intervals", "chords"}
  /\ config.programs["notes"] = << >>
  /\ config.programs["intervals"] = <<"octave", "min 2nd">>
  /\ config.programs["chords"] = <<"maj">>
  /\ Len(programs) = 72

\* the list a configuration holds under a key of its programs table, empty
\* when the table has no such key
ListOf(key) == IF key \in DOMAIN config.programs THEN config.programs[key] ELSE << >>

\* every interval name and chord quality of the configuration is a known one
TokensKnown ==
  /\ \A k \in 1..Len(ListOf("intervals")) : ListOf("intervals")[k] \in DOMAIN SEMITONE_MAP
  /\ \A k \in 1..Len(ListOf("chords")) : ListOf("chords")[k] \in DOMAIN INTERVAL_MAP

\* C13: a configuration whose programs table lacks one of the keys notes,
\* intervals, chords is treated as if that list were empty: generation
\* succeeds, the missing family has no programs and the other families are
\* generated as usual.
C13_AbsentSectionIsEmpty ==
  [][ ( /\ main_pc = "start"
        /\ Cardinality(DOMAIN config.programs) = 2
        /\ TokensKnown
        /\ FirstOctave <= LastOctave )
      => ( /\ main_pc' = "run"
           /\ main_exc' = NoError
           /\ Len(programs') = (Len(ListOf("notes")) + 12 * Len(ListOf("intervals")) +
                                12 * Len(ListOf("chords"))) * NumOctaves ) ]_vars

\* names that are no key of SEMITONE_MAP
UnknownIntervalNames == {"tritone", "", "maj", "3rd", "Maj 3rd", "major third", "5", "octaves"}

\* Interval(name, root) raises for every unknown name and every root
IntervalRejectsUnknown ==
  \A name \in UnknownIntervalNames : \A k \in 1..Len(NOTES) : \A o \in MinOctave..MaxOctave :
    Interval(name, Note(NOTES[k], o)).exc = "KeyError"

\* C14, as claimed: an interval name or chord quality token that is not a
\* known one, anywhere in the configuration, makes generation fail with an
\* error: no catalogue exists, whole or partial, and no program is drawn.
C14_UnknownTokenFails ==
  [][ (main_pc = "start" /\ ~TokensKnown)
      => (main_pc' = "exit" /\ main_exc' # NoError /\ programs' = << >>) ]_vars

\* C14, amended: when the octave range is not empty (start <= end), an
\* interval name or chord quality token that is not a known one, anywhere in
\* the configuration and whatever precedes it, makes generation fail with
\* KeyError or ValueError: no catalogue exists, whole or partial, and no
\* program is ever drawn; Interval(name, root) raises KeyError for every name
\* outside SEMITONE_MAP. (With an empty range no Interval or Chord is
\* constructed and the token goes unnoticed.)
C14_UnknownTokenFailsInRange ==
  /\ [](IntervalRejectsUnknown)
  /\ []((~TokensKnown /\ FirstOctave <= LastOctave)
          => (programs = << >> /\ drawn = None /\ main_pc \in {"start", "exit"}))
  /\ [][ (main_pc = "start" /\ ~TokensKnown /\ FirstOctave <= LastOctave)
         => (main_pc' = "exit" /\ main_exc' \in {"KeyError", "ValueError"}) ]_vars

\* generation has failed on "tritone", which follows a known interval name
\* and a non-empty list of notes
C14_Witness ==
  /\ main_pc = "exit"
  /\ main_exc = "KeyError"
  /\ DOMAIN config.programs = {"notes", "intervals", "chords"}
  /\ config.programs["notes"] # << >>
  /\ config.programs["intervals"] = <<"5th", "tritone">>
  /\ FirstOctave <= LastOctave
  /\ programs = << >>

\* a configuration from which an empty catalogue is generated: every list is
\* there and either all are empty or the octave range is (start > end)
EmptyCatalogueConfig ==
  /\ DOMAIN config.programs = {"notes", "intervals", "chords"}
  /\ \/ FirstOctave > LastOctave
     \/ \A key \in DOMAIN config.programs : config.programs[key] = << >>

\* C15, as claimed: an empty catalogue is fatal at startup, the process halts
\* with an error before the Runner Loop begins.
C15_EmptyCatalogueFatalAtStartup ==
  [][ (main_pc = "start" /\ EmptyCatalogueConfig)
      => (main_pc' = "exit" /\ main_exc' # NoError) ]_vars

\* C15, amended: an empty catalogue passes startup: ProgramRunner() returns
\* with an empty list and the catalogue is printed as 0 programs. It is fatal
\* at the first draw of the Runner Loop, where random.randint(0, -1) raises
\* ValueError; no program is ever drawn or started and no sound is played.
C15_EmptyCatalogueFatalAtFirstDraw ==
  /\ [][ (main_pc = "start" /\ EmptyCatalogueConfig)
         => (main_pc' = "run" /\ main_exc' = NoError /\ programs' = << >>) ]_vars
  /\ [][ (main_pc = "run" /\ programs = << >>)
         => (main_pc' = "exit" /\ main_exc' = "ValueError" /\ drawn' = None) ]_vars
  /\ []((main_pc # "start" /\ programs = << >>)
          => (drawn = None /\ main_pc \in {"run", "exit"} /\ \A p \in Programs : played[p] = << >>))

\* the loop has ended at its first draw: the lists are not empty but the
\* octave range is
C15_Witness ==
  /\ main_pc = "exit"
  /\ main_exc = "ValueError"
  /\ FirstOctave > LastOctave
  /\ config.programs["notes"] # << >>
  /\ config.programs["chords"] # << >>
  /\ drawn = None

\* the number of octaves of the configured range, none when start > end
OctaveCount == IF FirstOctave <= LastOctave THEN NumOctaves ELSE 0

\* the name at place k (from 1) of the catalogue as the order of enumeration
\* has it: the note programs, then the interval programs, then the chord
\* programs; within a family the entries in the order of their list, for each
\* entry (intervals and chords) the roots C..B, for each root the octaves
\* from start up to end
NameAt(k) ==
  LET notes == Len(ListOf("notes")) * OctaveCount
      intervals == Len(ListOf("intervals")) * 12 * OctaveCount
      i == k - notes - 1
      c == k - notes - intervals - 1
  IN  IF k <= notes
      THEN "Note - " \o ListOf("notes")[((k - 1) \div OctaveCount) + 1]
                     \o ToString(FirstOctave + ((k - 1) % OctaveCount))
      ELSE IF k <= notes + intervals
      THEN "Interval - " \o ListOf("intervals")[(i \div (12 * OctaveCount)) + 1]
                         \o " (" \o NOTES[((i % (12 * OctaveCount)) \div OctaveCount) + 1]
                         \o ToString(FirstOctave + (i % OctaveCount)) \o ")"
      ELSE "Chord - " \o NOTES[((c % (12 * OctaveCount)) \div OctaveCount) + 1]
                      \o " " \o ListOf("chords")[(c \div (12 * OctaveCount)) + 1]
                      \o ToString(FirstOctave + (c % OctaveCount))

\* C16: the sequence of the names of the catalogue just generated is determined by
\* the configuration alone, so two generations from one configuration give
\* the same sequence: all note programs come first, then all interval
\* programs, then all chord programs, each family in the order of its
\* configuration list, then (intervals and chords) by root in chromatic order
\* C..B, then by ascending octave.
C16_CatalogueOrder ==
  main_pc = "run" =>
    /\ Len(programs) = (Len(ListOf("notes")) + 12 * Len(ListOf("intervals")) +
                        12 * Len(ListOf("chords"))) * OctaveCount
    /\ \A k \in 1..Len(programs) : programs[k].name = NameAt(k)

\* a catalogue of all three families over two octaves: 4 note programs, 48
\* interval programs and 48 chord programs
C16_Witness ==
  /\ main_pc = "run"
  /\ config.octave_range = <<MinOctave, MinOctave + 1>>
  /\ Len(programs) = 100
  /\ programs[1].name = "Note - A#" \o ToString(MinOctave)
  /\ programs[4].name = "Note - C" \o ToString(MinOctave + 1)
  /\ programs[5].name = "Interval - octave (C" \o ToString(MinOctave) \o ")"
  /\ programs[52].name = "Interval - min 2nd (B" \o ToString(MinOctave + 1) \o ")"
  /\ programs[53].name = "Chord - C min" \o ToString(MinOctave)
  /\ programs[100].name = "Chord - B dim" \o ToString(MinOctave + 1)

\* the runner holds no Program and the loop has not ended: its next
\* iteration draws
Idle == current_program = None /\ exc = NoError

\* the latest iteration drew the program of index idx
Drew(cs, idx) == cs # << >> /\ cs[1] = Event("get_random_program", idx, -1, None)

\* C17: every index drawn lies in 0..N-1 for the catalogue of N programs, and
\* in every state in which the runner is idle, whatever was played before,
\* each program of the catalogue, of any family, the first, the last and the
\* one just completed, can be the next one drawn.
C17_AnyProgramDrawn ==
  /\ \A e \in Events(calls) : e.op = "get_random_program" => e.p \in 0..(Len(ProgramSteps) - 1)
  /\ Idle => \A idx \in 0..(Len(ProgramSteps) - 1) : ENABLED (run /\ Drew(calls', idx))

\* the last program of the catalogue is drawn again right after it completed:
\* it has run to its last step before and no other program has ever started
C17_Witness ==
  /\ Drew(calls, Len(ProgramSteps) - 1)
  /\ ever_started[Len(ProgramSteps) - 1][len_steps(Len(ProgramSteps) - 1) - 1]
  /\ \A q \in Programs : q # Len(ProgramSteps) - 1 => ~ever_started[q][0]

\* the steps of the catalogue that are running
RunningSteps == {pi \in {<<p, i>> : p \in Programs, i \in UNION {StepsOf(q) : q \in Programs}} :
                   pi[2] \in StepsOf(pi[1]) /\ is_running[pi[1]][pi[2]]}

\* C18: in every state of the Runner Loop at most one step of the whole
\* catalogue is running, and it is the step at the cursor of the current
\* Program of the runner; a running Program has its cursor within its steps
\* and its current step is the step at the cursor; every Program other than
\* the current one is not running and has no running step.
C18_OneRunningStep ==
  /\ Cardinality(RunningSteps) <= 1
  /\ \A pi \in RunningSteps :
       /\ current_program = pi[1]
       /\ current_step_idx[pi[1]] = pi[2]
       /\ current_step[pi[1]] = pi[2]
  /\ \A p \in Programs : programs_running[p] =>
       /\ 0 <= current_step_idx[p] /\ current_step_idx[p] < len_steps(p)
       /\ current_step[p] = current_step_idx[p]
  /\ \A p \in Programs : p # current_program =>
       /\ ~programs_running[p]
       /\ \A i \in StepsOf(p) : ~is_running[p][i]

\* the last step of the interval program is running after the note program
\* has run to its last step
C18_Witness ==
  /\ current_program = 1
  /\ programs_running[1]
  /\ is_running[1][2]
  /\ current_step_idx[1] = 2
  /\ ever_started[0][1]

\* Program p is as its completion leaves it: not running, no current step,
\* no step running, no start_time stored
AtRest(p) ==
  /\ ~programs_running[p]
  /\ current_step[p] = None
  /\ \A i \in StepsOf(p) : ~is_running[p][i] /\ start_time[p][i] = None

\* Program p has completed a run before
RanBefore(p) == ever_started[p][len_steps(p) - 1] /\ ~programs_running[p]

\* C19: a Program can be drawn again. Its completion leaves it not running,
\* with no current step and every step not running and without start_time;
\* when it is drawn after that, it is started from step 0 and its steps are
\* played in their order, each exactly once up to the cursor, and a run that
\* completes has played all of them, under durations that never change; and
\* an iteration changes no state of any Program other than the one it draws
\* or polls.
C19_ProgramReusable ==
  [][ \A p \in Programs :
        /\ Called(calls', "Program.stop", p, -1) => (AtRest(p))' /\ played'[p] = Full(p)
        /\ (Drew(calls', p) /\ RanBefore(p)) =>
             /\ AtRest(p)
             /\ Called(calls', "Program.start", p, -1)
             /\ played'[p] # << >>
             /\ played'[p] = UpTo(Len(played'[p]))
             /\ programs_running'[p] => current_step'[p] = Len(played'[p]) - 1
        /\ (p # current_program /\ ~Drew(calls', p)) =>
             /\ programs_running'[p] = programs_running[p]
             /\ current_step_idx'[p] = current_step_idx[p]
             /\ current_step'[p] = current_step[p]
             /\ is_running'[p] = is_running[p]
             /\ start_time'[p] = start_time[p]
             /\ ever_started'[p] = ever_started[p]
        /\ settings' = settings ]_vars

\* the note program, which has run to completion before, has been drawn
\* again and its step 0 is running and has been played, while the chord program
\* completed earlier stays at rest
C19_Witness ==
  /\ Drew(calls, 0)
  /\ ever_started[0][1]
  /\ programs_running[0]
  /\ played[0] = <<0>>
  /\ is_running[0][0]
  /\ ~is_running[0][1]
  /\ ever_started[2][1]
  /\ AtRest(2)
====
